---- MODULE Spec2Model ----
(***************************************************************************)
(* Model of the web discovery and extraction pipeline of                   *)
(* src/Demo/custom_web_tools.py (class CustomWebSearchTool).               *)
(*                                                                         *)
(* Text is kept run-length encoded: a text is a sequence of runs           *)
(* [c |-> character, n |-> repetitions], so that the lengths the code      *)
(* compares with (100, 150, 300, 2500, 3000) are the real ones.  A run     *)
(* whose c is a whole phrase ("Advertisement", ...) stands for that        *)
(* literal phrase and counts with the phrase's length.                     *)
(***************************************************************************)
EXTENDS Integers, Sequences, FiniteSets, TLC

VARIABLES
    pc,              \* where custom_web_search stands: "ddg", "alt", "news", "scrape", "done"
    search_query,    \* query: the argument of custom_web_search
    search_params,   \* self.search_params
    search_limit,    \* limit: the local of custom_web_search read from search_params
    collected_urls,  \* urls of _search_urls: what the strategies returned so far
    strategy_limit,  \* limit of the running strategy: what _search_urls asked it for
    site_index,      \* the position in news_sites / direct_checks the strategy fetches next
    strategy_urls,   \* fallback_urls / news_urls of the running strategy
    scrape_urls,     \* urls of custom_web_search: the list _search_urls returned
    scrape_index,    \* the position in urls[:limit] the fetch loop scrapes next
    search_results,  \* results of custom_web_search: the successful documents
    http_log,        \* every session.get so far: who issued it, for which URL, its outcome
    ret,             \* the value custom_web_search returned
    cancelled,       \* the caller of custom_web_search has given up on the call
    caught,          \* what the last request of a discovery strategy met: "none", or the
                     \* failure its except clause (or status test) handled
    session_headers, \* the User-Agent in self.session.headers of the one tool instance
    calls,           \* the calls of custom_web_search under way on that instance, each with
                     \* its place around a request and the headers its request carried
    fn_pc,           \* "ready" before the function under study is applied, "done" after
    fn_in,           \* the argument the function under study is applied to
    fn_out           \* its result

search_vars ==
    <<pc, search_query, search_params, search_limit, collected_urls, strategy_limit, site_index,
      strategy_urls, scrape_urls, scrape_index, search_results, http_log, ret, caught,
      cancelled>>

fn_vars == <<fn_pc, fn_in, fn_out>>

session_vars == <<session_headers, calls>>

vars == <<search_vars, session_vars, fn_vars>>

\* no search call is under way (the specifications of the pure functions)
NoSearch ==
    /\ pc = "idle"
    /\ search_query = ""
    /\ search_params = [limit |-> 0]
    /\ search_limit = 0
    /\ collected_urls = <<>>
    /\ strategy_limit = 0
    /\ site_index = 0
    /\ strategy_urls = <<>>
    /\ scrape_urls = <<>>
    /\ scrape_index = 0
    /\ search_results = <<>>
    /\ http_log = <<>>
    /\ ret = [kind |-> "none"]
    /\ caught = "none"
    /\ cancelled = FALSE

\* the request headers are not looked at (every specification but SpecSession: what a
\* request is answered does not depend on them)
NoSession ==
    /\ session_headers = "any"
    /\ calls = <<>>

\* no pure function is under study (the specification of the search call)
NoFunction ==
    /\ fn_pc = "idle"
    /\ fn_in = <<>>
    /\ fn_out = <<>>

(***************************************************************************)
(* Strings (Python str) as run-length encoded texts.                       *)
(***************************************************************************)
Whitespace == {" ", "\n"}

SentenceTerminators == {".", "!", "?"}

Run(c, n) == [c |-> c, n |-> n]

\* len() of one symbol: a phrase symbol stands for the literal phrase
CharLen(c) ==
    CASE c = "Advertisement" -> 13
      [] c = "Subscribe" -> 9
      [] c = "newsletter" -> 10
      [] c = "Untitled Article" -> 16
      [] c = "Content extraction failed" -> 25
      [] OTHER -> 1

SetMax(S) == CHOOSE x \in S : \A y \in S : y <= x

SetMin(S) == CHOOSE x \in S : \A y \in S : x <= y

\* len(s)
RECURSIVE TLen(_)
TLen(t) == IF t = <<>> THEN 0 ELSE CharLen(Head(t).c) * Head(t).n + TLen(Tail(t))

\* s[:k]; a phrase cut in the middle leaves letters
RECURSIVE TTake(_, _)
TTake(t, k) ==
    IF t = <<>> \/ k <= 0 THEN <<>>
    ELSE LET r == Head(t)
             w == CharLen(r.c)
             full == w * r.n
         IN  IF full <= k THEN <<r>> \o TTake(Tail(t), k - full)
             ELSE (IF k \div w > 0 THEN <<Run(r.c, k \div w)>> ELSE <<>>)
                  \o (IF k % w > 0 THEN <<Run("a", k % w)>> ELSE <<>>)

\* s.rfind(c) for a one-character c: the 0-based index of its last occurrence, -1 if none
TRfind(t, c) ==
    LET idx == {i \in 1..Len(t) : t[i].c = c}
    IN  IF idx = {} THEN -1
        ELSE TLen(SubSeq(t, 1, SetMax(idx))) - 1

\* s.strip()
RECURSIVE TLStrip(_)
TLStrip(t) == IF t # <<>> /\ Head(t).c \in Whitespace THEN TLStrip(Tail(t)) ELSE t

RECURSIVE TRStrip(_)
TRStrip(t) ==
    IF t # <<>> /\ t[Len(t)].c \in Whitespace THEN TRStrip(SubSeq(t, 1, Len(t) - 1)) ELSE t

TStrip(t) == TRStrip(TLStrip(t))

\* the last character of a non-empty text
TLastChar(t) == t[Len(t)].c

RECURSIVE DropNewlines(_)
DropNewlines(t) == IF t # <<>> /\ Head(t).c = "\n" THEN DropNewlines(Tail(t)) ELSE t

\* re.sub(r'\n+', '\n', s)
RECURSIVE SubNewlines(_)
SubNewlines(t) ==
    IF t = <<>> THEN <<>>
    ELSE IF Head(t).c = "\n"
         THEN <<Run("\n", 1)>> \o SubNewlines(DropNewlines(Tail(t)))
         ELSE <<Head(t)>> \o SubNewlines(Tail(t))

\* re.sub(r'\s+', ' ', s)
RECURSIVE SubWhitespace(_)
SubWhitespace(t) ==
    IF t = <<>> THEN <<>>
    ELSE IF Head(t).c \in Whitespace
         THEN <<Run(" ", 1)>> \o SubWhitespace(TLStrip(Tail(t)))
         ELSE <<Head(t)>> \o SubWhitespace(Tail(t))

(***************************************************************************)
(* _clean_content                                                          *)
(***************************************************************************)
MaxContentLen == 3000

SentenceWindow == 2500

\* the literal patterns of patterns_to_remove (r'Advertisement.*?' and its like: the lazy
\* tail matches nothing), represented by the phrase "Advertisement"
RemoveLiteral(t) == SelectSeq(t, LAMBDA r : r.c # "Advertisement")

\* the two-anchor patterns of patterns_to_remove (r'Subscribe.*?newsletter.*?' and its
\* like): from an opening phrase through the nearest closing phrase after it
RECURSIVE RemoveSpan(_)
RemoveSpan(t) ==
    IF t = <<>> THEN <<>>
    ELSE IF Head(t).c = "Subscribe" /\ \E j \in 2..Len(t) : t[j].c = "newsletter"
         THEN LET j == SetMin({k \in 2..Len(t) : t[k].c = "newsletter"})
                  left == IF t[j].n > 1 THEN <<Run("newsletter", t[j].n - 1)>> ELSE <<>>
              IN  RemoveSpan(left \o SubSeq(t, j + 1, Len(t)))
         ELSE <<Head(t)>> \o RemoveSpan(Tail(t))

RemovePatterns(t) == RemoveLiteral(RemoveSpan(t))

\* the text as it reaches the length limit: whitespace collapsed, patterns removed
Normalised(content) == RemovePatterns(SubWhitespace(SubNewlines(content)))

\* max(truncated.rfind('.'), truncated.rfind('!'), truncated.rfind('?'))
last_sentence(truncated) ==
    SetMax({TRfind(truncated, "."), TRfind(truncated, "!"), TRfind(truncated, "?")})

\* the marker "..." of a hard cut
Ellipsis == <<Run(".", 3)>>

\* a slip of LimitLength: the cut excludes the sentence terminator (truncated[:last_sentence])
LimitLength_exclusive(content) ==
    IF TLen(content) > MaxContentLen
    THEN LET truncated == TTake(content, MaxContentLen)
         IN  IF last_sentence(truncated) > SentenceWindow
             THEN TTake(truncated, last_sentence(truncated))
             ELSE truncated \o Ellipsis
    ELSE content

\* "Limit content length but try to end at sentence"
LimitLength(content) ==
    IF TLen(content) > MaxContentLen
    THEN LET truncated == TTake(content, MaxContentLen)
         IN  IF last_sentence(truncated) > SentenceWindow
             THEN TTake(truncated, last_sentence(truncated) + 1)
             ELSE truncated \o Ellipsis
    ELSE content

_clean_content(content) ==
    IF content = <<>> THEN <<>>
    ELSE TStrip(LimitLength(Normalised(content)))

(***************************************************************************)
(* Inputs of the text functions.                                           *)
(***************************************************************************)
MaxRuns == 3

RunLengths == {1, SentenceWindow, SentenceWindow + 1}

TextRuns ==
    {Run("a", n) : n \in RunLengths}
    \cup {Run(" ", n) : n \in {1, 2}}
    \cup {Run(c, 1) : c \in {".", "!", "?", "\n", "Advertisement", "Subscribe", "newsletter"}}

Texts == UNION {[1..k -> TextRuns] : k \in 0..MaxRuns}

(***************************************************************************)
(* SpecClean: _clean_content applied to every text of Texts.               *)
(***************************************************************************)
InitClean ==
    /\ NoSearch
    /\ NoSession
    /\ fn_pc = "ready"
    /\ fn_in \in Texts
    /\ fn_out = <<>>

CleanContent ==
    /\ fn_pc = "ready"
    /\ fn_pc' = "done"
    /\ fn_out' = _clean_content(fn_in)
    /\ UNCHANGED <<fn_in, search_vars, session_vars>>

NextClean == CleanContent

SpecClean == InitClean /\ [][NextClean]_vars

\* whether _clean_content cuts this input at a sentence terminator
CutAtSentence(content) ==
    /\ content # <<>>
    /\ TLen(Normalised(content)) > MaxContentLen
    /\ last_sentence(TTake(Normalised(content), MaxContentLen)) > SentenceWindow

\* C6: the output of _clean_content has at most 3000 + len("...") characters, and when
\* the cut was made at a sentence terminator the output ends with '.', '!' or '?'.
C6_CleanBounded ==
    fn_pc = "done" =>
        /\ TLen(fn_out) <= MaxContentLen + TLen(Ellipsis)
        /\ CutAtSentence(fn_in) =>
               /\ fn_out # <<>>
               /\ TLastChar(fn_out) \in SentenceTerminators

\* an over-long text was cut at a sentence terminator of its last 500 characters
C6_Witness ==
    /\ fn_pc = "done"
    /\ CutAtSentence(fn_in)
    /\ TLen(fn_out) > SentenceWindow
    /\ TLen(fn_out) < TLen(Normalised(fn_in))

(***************************************************************************)
(* _extract_title                                                          *)
(*                                                                         *)
(* The page is seen through soup.select_one: title_elems is the sequence   *)
(* of elements the selectors of the cascade match, in cascade order (a     *)
(* selector that matches nothing contributes nothing).  An element is      *)
(* [name, content, text]: its tag name, its content attribute and its      *)
(* get_text().                                                             *)
(***************************************************************************)
MaxTitleLen == 150

MinTitleLen == 5

Element(name, content, text) == [name |-> name, content |-> content, text |-> text]

\* s.split(sep)[0]
RECURSIVE SplitFirst(_, _)
SplitFirst(t, sep) ==
    IF t = <<>> \/ Head(t).c = sep THEN <<>>
    ELSE <<Head(t)>> \o SplitFirst(Tail(t), sep)

\* element.get('content', '').strip() for a meta element, element.get_text().strip() otherwise
ElementTitle(element) ==
    IF element.name = "meta" THEN TStrip(element.content) ELSE TStrip(element.text)

\* "Clean title": whitespace normalised, cut at the first '|' then at the first '-'
CleanTitle(title) == TStrip(SplitFirst(SplitFirst(SubWhitespace(title), "|"), "-"))

\* a slip of CapTitle: no cap
CapTitle_uncapped(title) == title

\* title[:150]
CapTitle(title) == TTake(title, MaxTitleLen)

UntitledArticle == <<Run("Untitled Article", 1)>>

RECURSIVE _extract_title(_)
_extract_title(title_elems) ==
    IF title_elems = <<>> THEN UntitledArticle
    ELSE LET title == ElementTitle(Head(title_elems))
         IN  IF title # <<>> /\ TLen(title) > MinTitleLen
             THEN CapTitle(CleanTitle(title))
             ELSE _extract_title(Tail(title_elems))

\* the text of the element whose title _extract_title returns (<<>> if there is none)
RECURSIVE MatchedTitle(_)
MatchedTitle(title_elems) ==
    IF title_elems = <<>> THEN <<>>
    ELSE LET title == ElementTitle(Head(title_elems))
         IN  IF title # <<>> /\ TLen(title) > MinTitleLen
             THEN title
             ELSE MatchedTitle(Tail(title_elems))

MaxTitleRuns == 3

MaxSkipped == 1

TitleRuns ==
    {Run("a", n) : n \in {1, MinTitleLen, MaxTitleLen}}
    \cup {Run(c, 1) : c \in {" ", "|", "-"}}

TitleTexts == UNION {[1..k -> TitleRuns] : k \in 0..MaxTitleRuns}

TitleElements ==
    {Element("meta", t, <<>>) : t \in TitleTexts}
    \cup {Element("h1", <<>>, t) : t \in TitleTexts}

\* elements the cascade meets before the one under study
EarlierElements ==
    { Element("h1", <<>>, <<>>),
      Element("h1", <<Run("a", 2)>>, <<Run("a", MinTitleLen)>>),
      Element("meta", <<Run("a", MinTitleLen + 1)>>, <<>>) }

(***************************************************************************)
(* SpecTitle: _extract_title applied to cascades of matched elements.      *)
(***************************************************************************)
InitTitle ==
    /\ NoSearch
    /\ NoSession
    /\ fn_pc = "ready"
    /\ \E k \in 0..MaxSkipped : \E pre \in [1..k -> EarlierElements] :
          \E e \in TitleElements : fn_in = pre \o <<e>>
    /\ fn_out = <<>>

ExtractTitle ==
    /\ fn_pc = "ready"
    /\ fn_pc' = "done"
    /\ fn_out' = _extract_title(fn_in)
    /\ UNCHANGED <<fn_in, search_vars, session_vars>>

NextTitle == ExtractTitle

SpecTitle == InitTitle /\ [][NextTitle]_vars

\* C8 as stated: a matched title text longer than 150 characters is returned with exactly
\* 150 characters, and every returned title has at most 150 characters.
C8_Original ==
    fn_pc = "done" =>
        /\ TLen(fn_out) <= MaxTitleLen
        /\ TLen(MatchedTitle(fn_in)) > MaxTitleLen => TLen(fn_out) = MaxTitleLen

\* C8 amended: every returned title has at most 150 characters, and it has exactly 150
\* when the matched text, after whitespace normalisation, the cut at the first pipe or
\* hyphen and stripping, is still longer than 150 characters.
C8_TitleCapped ==
    fn_pc = "done" =>
        /\ TLen(fn_out) <= MaxTitleLen
        /\ TLen(CleanTitle(MatchedTitle(fn_in))) > MaxTitleLen => TLen(fn_out) = MaxTitleLen

\* a cleaned title of more than 150 characters was cut to 150
C8_Witness ==
    /\ fn_pc = "done"
    /\ TLen(CleanTitle(MatchedTitle(fn_in))) > MaxTitleLen
    /\ TLen(fn_out) = MaxTitleLen

(***************************************************************************)
(* URLs.  A URL string is a sequence of tokens, e.g.                       *)
(*   <<"https", ":", "/", "/", "www.", "facebook.com", "/", "news", "/">>  *)
(* A substring test of the code ('facebook.com' in domain, '/news/' in     *)
(* url) is a test for a contiguous run of tokens; the tokens are chosen    *)
(* so that no pattern of the code straddles a token boundary.              *)
(***************************************************************************)
\* str.lower() of a token
Lower(tok) ==
    CASE tok = "HTTPS" -> "https"
      [] tok = "FACEBOOK.COM" -> "facebook.com"
      [] tok = "NEWS" -> "news"
      [] OTHER -> tok

LowerSeq(u) == [i \in 1..Len(u) |-> Lower(u[i])]

\* pat in s
Contains(pat, s) ==
    \E i \in 0..(Len(s) - Len(pat)) : \A j \in 1..Len(pat) : s[i + j] = pat[j]

\* s.startswith('http')
StartsWithHttp(href) == href # <<>> /\ href[1] \in {"http", "https"}

\* the characters that end a netloc
NetlocEnd == {"/", "?", "#"}

RECURSIVE UpTo(_, _)
UpTo(s, stops) ==
    IF s = <<>> \/ Head(s) \in stops THEN <<>> ELSE <<Head(s)>> \o UpTo(Tail(s), stops)

\* urllib.parse.urlparse: the scheme (lower-cased) and the netloc; "error" stands for the
\* ValueError urlparse raises on an unbalanced bracket in the netloc
urlparse(url) ==
    LET has_scheme == Len(url) >= 2 /\ url[2] = ":" /\ url[1] \notin (NetlocEnd \cup {":"})
        scheme == IF has_scheme THEN Lower(url[1]) ELSE ""
        rest == IF has_scheme THEN SubSeq(url, 3, Len(url)) ELSE url
        netloc == IF Len(rest) >= 2 /\ rest[1] = "/" /\ rest[2] = "/"
                  THEN UpTo(SubSeq(rest, 3, Len(rest)), NetlocEnd)
                  ELSE <<>>
        bracket(b) == \E i \in 1..Len(netloc) : netloc[i] = b
    IN  [ error |-> (bracket("[") /\ ~bracket("]")) \/ (bracket("]") /\ ~bracket("[")),
          scheme |-> scheme,
          netloc |-> netloc ]

excluded_domains ==
    { "facebook.com", "twitter.com", "instagram.com", "linkedin.com",
      "youtube.com", "tiktok.com", "pinterest.com", "reddit.com",
      "google.com", "bing.com", "yahoo.com", "duckduckgo.com",
      "amazon.com", "ebay.com" }

\* a slip of DomainOf: the netloc is compared as written, not lower-cased
DomainOf_case_sensitive(parsed) == parsed.netloc

\* domain = parsed.netloc.lower()
DomainOf(parsed) == LowerSeq(parsed.netloc)

_is_valid_url(url) ==
    LET parsed == urlparse(url)
    IN  IF parsed.error THEN FALSE
        ELSE IF ~(parsed.scheme \in {"http", "https"} /\ parsed.netloc # <<>>) THEN FALSE
        ELSE \A excluded \in excluded_domains : ~Contains(<<excluded>>, DomainOf(parsed))

news_indicators ==
    { <<"/", w, "/">> : w \in { "news", "article", "story", "post", "blog", "2024", "2025",
                               "artificial-intelligence", "ai", "tech", "technology" } }

\* a slip of _is_news_url: the indicators are not looked for
_is_news_url_any(url) == _is_valid_url(url)

_is_news_url(url) ==
    IF ~_is_valid_url(url) THEN FALSE
    ELSE \E indicator \in news_indicators : Contains(indicator, LowerSeq(url))

\* str(year)
YearToken(year) ==
    CASE year = 2023 -> "2023" [] year = 2024 -> "2024" [] year = 2025 -> "2025"
      [] year = 2026 -> "2026" [] year = 2027 -> "2027" [] year = 2028 -> "2028"
      [] OTHER -> "year"

\* current_year is datetime.now().year
recent_indicators(current_year) ==
    { <<"/", YearToken(current_year), "/">>, <<"/", YearToken(current_year - 1), "/">>,
      <<"/", "2024", "/">>, <<"/", "2025", "/">> }

_is_recent_article(url, current_year) ==
    IF ~_is_news_url(url) THEN FALSE
    ELSE \E indicator \in recent_indicators(current_year) : Contains(indicator, url)

\* the host of a URL in the sense of RFC 3986: the authority after "//", without
\* userinfo and port, lower-cased
UrlHost(url) ==
    LET after == IF Len(url) >= 2 /\ url[2] = ":" THEN SubSeq(url, 3, Len(url)) ELSE url
        authority == IF Len(after) >= 2 /\ after[1] = "/" /\ after[2] = "/"
                     THEN UpTo(SubSeq(after, 3, Len(after)), NetlocEnd)
                     ELSE <<>>
    IN  LowerSeq(SelectSeq(authority, LAMBDA tok : tok \notin {"user@", ":8080"}))

HostExcluded(url) == \E excluded \in excluded_domains : Contains(<<excluded>>, UrlHost(url))

(***************************************************************************)
(* The validate-and-deduplicate merge that ends _search_urls.              *)
(***************************************************************************)
\* a slip of Collect: a new URL is put in front (valid_urls.insert(0, url))
Collect_prepend(valid_urls, url) == <<url>> \o valid_urls

\* valid_urls.append(url)
Collect(valid_urls, url) == Append(valid_urls, url)

\* a slip of IsNew: nothing is ever taken for seen
IsNew_always(seen, url) == TRUE

\* url not in seen
IsNew(seen, url) == url \notin seen

\* the loop "for url in urls: if url not in seen and self._is_valid_url(url): ..."
RECURSIVE DedupValidate(_, _, _)
DedupValidate(urls, seen, valid_urls) ==
    IF urls = <<>> THEN valid_urls
    ELSE LET url == Head(urls)
         IN  IF IsNew(seen, url) /\ _is_valid_url(url)
             THEN DedupValidate(Tail(urls), seen \cup {url}, Collect(valid_urls, url))
             ELSE DedupValidate(Tail(urls), seen, valid_urls)

\* lines 170-179 of _search_urls: remove duplicates, validate, return valid_urls[:limit]
MergeUrls(urls, limit) ==
    LET valid_urls == DedupValidate(urls, {}, <<>>)
    IN  SubSeq(valid_urls, 1, IF Len(valid_urls) < limit THEN Len(valid_urls) ELSE limit)

(***************************************************************************)
(* Inputs of the URL functions.                                            *)
(***************************************************************************)
MaxLimit == 2

MkUrl(scheme, slashes, authority, path) ==
    (IF scheme = "" THEN <<>> ELSE <<scheme, ":">>)
    \o (IF slashes THEN <<"/", "/">> ELSE <<>>)
    \o authority \o path

Schemes == {"https", "http", "HTTPS", "ftp", ""}

Authorities ==
    { <<"example.org">>, <<"facebook.com">>, <<"www.", "facebook.com">>, <<"FACEBOOK.COM">>,
      <<"user@", "reddit.com", ":8080">>, <<"facebook.com", ".example.org">>,
      <<"news">>, <<"[", "example.org">>, <<>> }

Paths ==
    { <<>>, <<"/", "news", "/", "x">>, <<"/", "NEWS", "/", "x">>, <<"/", "about">>,
      <<"/", "2023", "/", "x">>, <<"/", "2024", "/", "x">>, <<"/", "2026", "/", "x">>,
      <<"?", "q", "=", "facebook.com">>, <<"/", "news", "/", "?", "u", "=", "twitter.com">> }

UrlUniverse ==
    { MkUrl(s, sl, a, p) : s \in Schemes, sl \in BOOLEAN, a \in Authorities, p \in Paths }

Years == {2025, 2026, 2027}

(***************************************************************************)
(* SpecUrl: the validators applied to every URL of UrlUniverse.            *)
(***************************************************************************)
InitUrl ==
    /\ NoSearch
    /\ NoSession
    /\ fn_pc = "ready"
    /\ fn_in \in [url : UrlUniverse, current_year : Years]
    /\ fn_out = <<>>

ValidateUrl ==
    /\ fn_pc = "ready"
    /\ fn_pc' = "done"
    /\ fn_out' = [ valid |-> _is_valid_url(fn_in.url),
                   news |-> _is_news_url(fn_in.url),
                   recent |-> _is_recent_article(fn_in.url, fn_in.current_year),
                   merged |-> MergeUrls(<<fn_in.url>>, MaxLimit) ]
    /\ UNCHANGED <<fn_in, search_vars, session_vars>>

NextUrl == ValidateUrl

SpecUrl == InitUrl /\ [][NextUrl]_vars

\* C5: _is_valid_url is false for every URL whose host contains an excluded domain,
\* whatever its scheme, path or query; so such a URL passes neither the strategies'
\* filters nor the final gate of _search_urls, whose output is all that is fetched.
C5_ExcludedRejected ==
    (fn_pc = "done" /\ HostExcluded(fn_in.url)) =>
        /\ ~fn_out.valid
        /\ ~fn_out.news
        /\ ~fn_out.recent
        /\ fn_out.merged = <<>>

\* an http(s) URL with an article path whose host is an excluded domain in capitals was
\* validated and rejected
C5_Witness ==
    /\ fn_pc = "done"
    /\ HostExcluded(fn_in.url)
    /\ urlparse(fn_in.url).scheme = "https"
    /\ Contains(<<"FACEBOOK.COM">>, fn_in.url)
    /\ Contains(<<"/", "news", "/">>, fn_in.url)
    /\ ~fn_out.valid

(***************************************************************************)
(* SpecMerge: the merge of _search_urls applied to candidate lists, and    *)
(* applied again to its own output.                                        *)
(***************************************************************************)
MaxCandidates == 4

CandidatePool ==
    { MkUrl("https", TRUE, <<"example.org">>, <<"/", "news", "/", "x">>),
      MkUrl("http", TRUE, <<"example.org">>, <<"/", "about">>),
      MkUrl("https", TRUE, <<"news">>, <<"/", "2024", "/", "x">>),
      MkUrl("https", TRUE, <<"www.", "facebook.com">>, <<"/", "news", "/", "x">>),
      MkUrl("ftp", TRUE, <<"example.org">>, <<"/", "news", "/", "x">>) }

CandidateLists == UNION {[1..k -> CandidatePool] : k \in 0..MaxCandidates}

InitMerge ==
    /\ NoSearch
    /\ NoSession
    /\ fn_pc = "ready"
    /\ fn_in \in [urls : CandidateLists, limit : 1..MaxLimit]
    /\ fn_out = <<>>

MergeTwice ==
    /\ fn_pc = "ready"
    /\ fn_pc' = "done"
    /\ fn_out' = [ once |-> MergeUrls(fn_in.urls, fn_in.limit),
                   twice |-> MergeUrls(MergeUrls(fn_in.urls, fn_in.limit), fn_in.limit) ]
    /\ UNCHANGED <<fn_in, search_vars, session_vars>>

NextMerge == MergeTwice

SpecMerge == InitMerge /\ [][NextMerge]_vars

\* C4: the validate-and-deduplicate merge is idempotent: applied to its own output it
\* yields the same sequence of URLs as applied once.
C4_MergeIdempotent ==
    fn_pc = "done" => fn_out.twice = fn_out.once

\* a list with a repeated URL and a rejected URL was merged: the first pass changed it
C4_Witness ==
    /\ fn_pc = "done"
    /\ \E i, j \in 1..Len(fn_in.urls) : i < j /\ fn_in.urls[i] = fn_in.urls[j]
    /\ \E i \in 1..Len(fn_in.urls) : ~_is_valid_url(fn_in.urls[i])
    /\ Len(fn_out.once) >= 2
    /\ Len(fn_out.once) < Len(fn_in.urls)

(***************************************************************************)
(* _extract_content, _extract_date, _scrape_content                        *)
(*                                                                         *)
(* A fetched article page is seen through the selectors:                   *)
(*   title_elems  the elements the title selectors match, in cascade order *)
(*   containers   get_text(separator='\n', strip=True) of the elements the *)
(*                content selectors match, in cascade order, after the     *)
(*                unwanted nested elements are decomposed                  *)
(*   paragraphs   the text of each <p>                                     *)
(*   date         what the date selectors yield ("" if nothing)            *)
(***************************************************************************)
MinContainerLen == 300

MinParagraphLen == 20

MinContentLen == 100

ExtractionFailed == <<Run("Content extraction failed", 1)>>

\* '\n'.join(texts)
RECURSIVE JoinLines(_)
JoinLines(texts) ==
    IF texts = <<>> THEN <<>>
    ELSE IF Len(texts) = 1 THEN Head(texts)
    ELSE Head(texts) \o <<Run("\n", 1)>> \o JoinLines(Tail(texts))

StripAll(texts) == [i \in 1..Len(texts) |-> TStrip(texts[i])]

_extract_content(page) ==
    LET substantial == SelectSeq(page.containers, LAMBDA content : TLen(content) > MinContainerLen)
        content == JoinLines(SelectSeq(StripAll(page.paragraphs),
                                       LAMBDA text : TLen(text) > MinParagraphLen))
    IN  IF substantial # <<>> THEN _clean_content(Head(substantial))
        ELSE IF page.paragraphs # <<>> /\ TLen(content) > MinContainerLen
             THEN _clean_content(content)
             ELSE ExtractionFailed

\* datetime.now().strftime("%Y-%m-%d") when no date selector yields a value
_extract_date(page) == IF page.date = "" THEN "today" ELSE page.date

\* len(content.split())
WordCount(content) ==
    Cardinality({ i \in 1..Len(content) :
                    /\ content[i].c \notin Whitespace
                    /\ (i = 1 \/ content[i - 1].c \in Whitespace) })

\* the body of an error answer: an error page with text enough to pass for an article
NotFoundPage ==
    [ title_elems |-> <<Element("title", <<>>, <<Run("a", 8)>>)>>,
      containers |-> << <<Run("a", 150), Run(" ", 1), Run("a", 150), Run(".", 1)>> >>,
      paragraphs |-> <<>>,
      date |-> "" ]

\* article pages: a good one, a long one with a meta title and paragraphs only, one with
\* nothing to extract, one whose container is mostly boilerplate
GoodPage ==
    [ title_elems |-> <<Element("h1", <<>>, <<Run("a", 3)>>),
                        Element("h1", <<>>, <<Run("a", 10), Run(" ", 1), Run("a", 4)>>)>>,
      containers |-> << <<Run("a", 50)>>,
                        <<Run("a", 200), Run("\n", 2), Run("a", 200), Run(".", 1)>> >>,
      paragraphs |-> <<>>,
      date |-> "2025-01-02" ]

LongPage ==
    [ title_elems |-> <<Element("meta", <<Run("a", 6), Run(" ", 1), Run("|", 1), Run("a", 8)>>,
                                <<>>)>>,
      containers |-> <<>>,
      paragraphs |-> << <<Run("a", 2501), Run(".", 1)>>, <<Run("a", 5)>>, <<Run("a", 2500)>> >>,
      date |-> "" ]

EmptyPage ==
    [ title_elems |-> <<>>,
      containers |-> << <<Run("a", 50)>> >>,
      paragraphs |-> << <<Run("a", 30)>> >>,
      date |-> "" ]

ThinPage ==
    [ title_elems |-> <<Element("h1", <<>>, <<Run("a", 10)>>)>>,
      containers |-> << <<Run("a", 50), Run(" ", 1), Run("Advertisement", 20)>> >>,
      paragraphs |-> <<>>,
      date |-> "" ]

ArticlePages == {GoodPage, LongPage, EmptyPage, ThinPage}

\* pages with one content container: two words with a stretch of blanks between them
BodyParts == {40, 49, 50, 60}

Gaps == {150, 250}

BodyPage(first, gap, second) ==
    [ title_elems |-> <<Element("h1", <<>>, <<Run("a", 12)>>)>>,
      containers |-> << <<Run("a", first), Run(" ", gap), Run("b", second)>> >>,
      paragraphs |-> <<>>,
      date |-> "" ]

BodyPages == {BodyPage(first, gap, second) : first \in BodyParts, gap \in Gaps, second \in BodyParts}

\* what _extract_title, _extract_content, _extract_date and len(content.split()) give on
\* each page
Extracted ==
    [ page \in ArticlePages \cup BodyPages \cup {NotFoundPage} |->
        [ title |-> _extract_title(page.title_elems),
          content |-> _extract_content(page),
          published_date |-> _extract_date(page),
          word_count |-> WordCount(_extract_content(page)) ] ]

\* a slip of Raised: response.raise_for_status() is not called
Raised_no_status(response) == response.kind = "exception"

\* session.get raises (timeout, connection error) or response.raise_for_status() does
Raised(response) == response.kind = "exception" \/ response.status >= 400

\* session.get raises or response.status_code == 200 is false
NotOk(response) == response.kind = "exception" \/ response.status # 200

\* a slip of TooShort: the length of the body is not tested
TooShort_untested(content) == FALSE

\* a slip of TooShort: a body of exactly 100 characters is refused as well
TooShort_inclusive(content) == TLen(content) <= MinContentLen

\* len(content) < 100
TooShort(content) == TLen(content) < MinContentLen

_scrape_content(url, response) ==
    IF Raised(response)
    THEN [ title |-> <<>>, content |-> <<>>, url |-> url, success |-> FALSE,
           error |-> IF response.kind = "exception" THEN "timeout" ELSE "http error" ]
    ELSE LET title == Extracted[response.page].title
             content == Extracted[response.page].content
             published_date == Extracted[response.page].published_date
         IN  IF TooShort(content)
             THEN [success |-> FALSE, error |-> "Content too short"]
             ELSE [ title |-> title, content |-> content, url |-> url,
                    published_date |-> published_date, success |-> TRUE,
                    word_count |-> Extracted[response.page].word_count ]

\* the answers a fetch of one article URL can get
ScrapeResponses ==
    {[kind |-> "exception", status |-> 0, page |-> NotFoundPage]}
    \cup {[kind |-> "http", status |-> status, page |-> page] :
            status \in {200, 404}, page \in BodyPages \cup ArticlePages}

InitScrape ==
    /\ NoSearch
    /\ NoSession
    /\ fn_pc = "ready"
    /\ fn_in \in [ url : {<<"https", ":", "/", "/", "example.org", "/", "news", "/", "a">>},
                  response : ScrapeResponses ]
    /\ fn_out = <<>>

ScrapeContent ==
    /\ fn_pc = "ready"
    /\ fn_pc' = "done"
    /\ fn_out' = _scrape_content(fn_in.url, fn_in.response)
    /\ UNCHANGED <<fn_in, search_vars, session_vars>>

NextScrape == ScrapeContent

SpecScrape == InitScrape /\ [][NextScrape]_vars

\* C11: a fetched document is successful if and only if its cleaned body has at least 100
\* characters; a shorter body (99 characters) is refused with the reason "Content too short".
C11_SuccessIffLongEnough ==
    (fn_pc = "done" /\ fn_in.response.kind = "http" /\ fn_in.response.status = 200) =>
        LET body == _extract_content(fn_in.response.page)
        IN  /\ fn_out.success <=> TLen(body) >= 100
            /\ fn_out.success => fn_out.content = body
            /\ ~fn_out.success => fn_out.error = "Content too short"

\* a container of 49 + 250 + 50 characters is cleaned to a body of exactly 100 characters
\* and accepted
C11_Witness ==
    /\ fn_pc = "done"
    /\ fn_in.response = [kind |-> "http", status |-> 200, page |-> BodyPage(49, 250, 50)]
    /\ TLen(_extract_content(fn_in.response.page)) = 100
    /\ fn_out.success
    /\ fn_out.word_count = 2

(***************************************************************************)
(* _format_results and the texts custom_web_search returns                 *)
(***************************************************************************)
\* a slip of SumWords: only the first document is counted
SumWords_first(results) == IF results = <<>> THEN 0 ELSE Head(results).word_count

RECURSIVE SumWords(_)
SumWords(results) ==
    IF results = <<>> THEN 0 ELSE Head(results).word_count + SumWords(Tail(results))

\* the rendered report, field by field in the order of the f-strings
_format_results(results, query) ==
    IF results = <<>>
    THEN [kind |-> "message", text |-> <<"No results found for query: ", query>>]
    ELSE [ kind |-> "report",
           query |-> query,
           results_found |-> Len(results),
           total_content |-> SumWords(results),
           articles |-> [ i \in 1..Len(results) |->
                            [ title |-> results[i].title,
                              url |-> results[i].url,
                              published |-> results[i].published_date,
                              word_count |-> results[i].word_count,
                              content |-> results[i].content,
                              source_link |-> [title |-> results[i].title, url |-> results[i].url] ] ],
           key_findings |-> [articles |-> Len(results), words |-> SumWords(results)],
           next_steps |-> Len(results) ]

NoSearchResults(query) ==
    [ kind |-> "message",
      text |-> <<"No search results found for query: ", query,
                 ". Please try a different search term.">> ]

\* the text the handler "except Exception as e" of custom_web_search returns
CriticalError == [kind |-> "error", text |-> <<"CRITICAL ERROR in web search: ">>]

\* a slip of NoContent: the empty case is raised and ends in the handler
NoContent_critical(query) == CriticalError

NoContent(query) ==
    [ kind |-> "message",
      text |-> <<"No content could be extracted from search results for: ", query>> ]

(***************************************************************************)
(* The discovery strategies.  A result or listing page is the sequence of  *)
(* its hrefs, in document order (for _search_news_sites: in the order the  *)
(* selector cascade yields them).                                          *)
(***************************************************************************)
\* urllib.parse.quote_plus of the query
quote_plus(query) == IF query = "test topic" THEN "test+topic" ELSE query

search_url(query) ==
    <<"https", ":", "/", "/", "html.", "duckduckgo.com", "/", "html", "/", "?", "q", "=",
      quote_plus(query)>>

news_sites(query) ==
    << <<"https", ":", "/", "/", "techcrunch.com", "/", "search", "/", quote_plus(query), "/">>,
       <<"https", ":", "/", "/", "www.", "theverge.com", "/", "search", "?", "q", "=",
         quote_plus(query)>>,
       <<"https", ":", "/", "/", "arstechnica.com", "/", "search", "/", "?", "query", "=",
         quote_plus(query)>> >>

direct_checks ==
    << <<"https", ":", "/", "/", "techcrunch.com", "/", "category", "/",
         "artificial-intelligence", "/">>,
       <<"https", ":", "/", "/", "www.", "theverge.com", "/", "ai-artificial-intelligence">>,
       <<"https", ":", "/", "/", "arstechnica.com", "/", "tag", "/",
         "artificial-intelligence", "/">>,
       <<"https", ":", "/", "/", "venturebeat.com", "/", "ai", "/">>,
       <<"https", ":", "/", "/", "www.", "wired.com", "/", "tag", "/",
         "artificial-intelligence", "/">> >>

\* urllib.parse.unquote of a percent-encoded redirect target
unquote(value) ==
    CASE value = "https%3A%2F%2Fexample.org%2Fnews%2Fa"
           -> <<"https", ":", "/", "/", "example.org", "/", "news", "/", "a">>
      [] value = "https%3A%2F%2Fwww.facebook.com%2Fnews%2Fx"
           -> <<"https", ":", "/", "/", "www.", "facebook.com", "/", "news", "/", "x">>
      [] OTHER -> <<value>>

\* '/l/?uddg=' in href or '/l/?kh=' in href
IsRedirect(href) ==
    \/ Contains(<<"/", "l", "/", "?", "uddg", "=">>, href)
    \/ Contains(<<"/", "l", "/", "?", "kh", "=">>, href)

\* parse_qs(urlparse(href).query): the value of the parameter, <<>> when it is blank
\* (parse_qs drops blank values, so neither key is then in parsed)
RedirectValue(href) ==
    LET i == CHOOSE k \in 1..Len(href) : href[k] = "="
    IN  IF i < Len(href) THEN <<href[i + 1]>> ELSE <<>>

\* urljoin(site_url, href) for a relative href
urljoin(site_url, href) ==
    LET scheme == SubSeq(site_url, 1, 2)
        origin == SubSeq(site_url, 1, 4) \o urlparse(site_url).netloc
        path == UpTo(SubSeq(site_url, Len(origin) + 1, Len(site_url)), {"?", "#"})
        slashes == {i \in 1..Len(path) : path[i] = "/"}
        dir == IF slashes = {} THEN <<"/">> ELSE SubSeq(path, 1, SetMax(slashes))
    IN  IF Len(href) >= 2 /\ href[1] = "/" /\ href[2] = "/" THEN scheme \o href
        ELSE IF href # <<>> /\ href[1] = "/" THEN origin \o href
        ELSE origin \o dir \o href

\* the loop over soup.find_all('a', href=True) of _duckduckgo_search_improved
RECURSIVE DdgScan(_, _, _)
DdgScan(links, urls, limit) ==
    IF links = <<>> THEN urls
    ELSE LET href == Head(links)
         IN  IF IsRedirect(href)
             THEN IF RedirectValue(href) = <<>>
                  THEN DdgScan(Tail(links), urls, limit)                      \* continue
                  ELSE LET real_url == unquote(RedirectValue(href)[1])
                           found == IF _is_news_url(real_url) THEN Append(urls, real_url)
                                    ELSE urls
                       IN  IF Len(found) >= limit THEN found
                           ELSE DdgScan(Tail(links), found, limit)
             ELSE LET found == IF /\ StartsWithHttp(href)
                                  /\ ~Contains(<<"duckduckgo.com">>, href)
                                  /\ _is_news_url(href)
                               THEN Append(urls, href) ELSE urls
                  IN  IF Len(found) >= limit THEN found
                      ELSE DdgScan(Tail(links), found, limit)

\* a slip of Prefix: the list is returned uncut
Prefix_uncut(s, limit) == s

\* s[:limit]
Prefix(s, limit) == SubSeq(s, 1, IF Len(s) < limit THEN Len(s) ELSE limit)

_duckduckgo_search_improved(response, limit) ==
    IF Raised(response) THEN <<>>
    ELSE Prefix(DdgScan(response.links, <<>>, limit), limit)

\* the loop over the links of one site of _alternative_search
RECURSIVE AltScan(_, _, _, _)
AltScan(links, fallback_urls, limit, site_url) ==
    IF links = <<>> THEN fallback_urls
    ELSE LET raw == Head(links)
             dated == Contains(<<"/", "2024", "/">>, raw) \/ Contains(<<"/", "2025", "/">>, raw)
             href == IF StartsWithHttp(raw) THEN raw ELSE urljoin(site_url, raw)
         IN  IF raw # <<>> /\ dated /\ _is_news_url(href)
             THEN IF Len(fallback_urls) + 1 >= limit THEN Append(fallback_urls, href)
                  ELSE AltScan(Tail(links), Append(fallback_urls, href), limit, site_url)
             ELSE AltScan(Tail(links), fallback_urls, limit, site_url)

\* the loop over the links of one site of _search_news_sites
RECURSIVE NewsScan(_, _, _, _, _)
NewsScan(links, news_urls, limit, site_url, current_year) ==
    IF links = <<>> THEN news_urls
    ELSE LET raw == Head(links)
             href == IF StartsWithHttp(raw) THEN raw ELSE urljoin(site_url, raw)
         IN  IF raw # <<>> /\ _is_recent_article(href, current_year)
             THEN IF Len(news_urls) + 1 >= limit THEN Append(news_urls, href)
                  ELSE NewsScan(Tail(links), Append(news_urls, href), limit, site_url,
                                current_year)
             ELSE NewsScan(Tail(links), news_urls, limit, site_url, current_year)

(***************************************************************************)
(* What the network can answer.                                            *)
(***************************************************************************)
MaxLinks == 2

Exception == [kind |-> "exception", status |-> 0, links |-> <<>>, page |-> NotFoundPage]

HttpError == [kind |-> "http", status |-> 404, links |-> <<>>, page |-> NotFoundPage]

UrlDated == <<"https", ":", "/", "/", "example.org", "/", "2025", "/", "b">>

UrlNextYear == <<"https", ":", "/", "/", "example.org", "/", "news", "/", "2026", "/", "c">>

UrlAbout == <<"https", ":", "/", "/", "example.org", "/", "about">>

\* the hrefs a DuckDuckGo result page can hold
DdgLinks ==
    { <<"/", "/", "duckduckgo.com", "/", "l", "/", "?", "uddg", "=",
        "https%3A%2F%2Fexample.org%2Fnews%2Fa">>,
      <<"/", "l", "/", "?", "kh", "=", "https%3A%2F%2Fwww.facebook.com%2Fnews%2Fx">>,
      <<"/", "l", "/", "?", "uddg", "=">>,
      <<"https", ":", "/", "/", "duckduckgo.com", "/", "news", "/", "y">>,
      UrlDated, UrlAbout }

\* the hrefs a site's search or listing page can hold
SiteLinks == { UrlDated, UrlNextYear, <<"/", "2025", "/", "rel">> }

DdgResponses ==
    {Exception, HttpError}
    \cup {[kind |-> "http", status |-> 200, links |-> l] :
            l \in UNION {[1..k -> DdgLinks] : k \in 0..MaxLinks}}

SiteResponses ==
    {Exception, HttpError}
    \cup {[kind |-> "http", status |-> 200, links |-> l] :
            l \in UNION {[1..k -> SiteLinks] : k \in 0..MaxLinks}}

CurrentYears == {2025, 2026}

ArticleResponses ==
    {Exception, HttpError} \cup {[kind |-> "http", status |-> 200, page |-> p] : p \in ArticlePages}

Queries == {"test topic"}

(***************************************************************************)
(* custom_web_search, one action per session.get: the action is the        *)
(* request, its answer and all the code that runs until the next request   *)
(* or the return.                                                          *)
(***************************************************************************)
DefaultLimit == 5

\* a slip of GetLimit: the configured limit is not read
GetLimit_default(params) == DefaultLimit

\* a slip of GetLimit: a search of the past day ("tbs": "qdr:d") is cut to one result
GetLimit_by_token(params) ==
    IF "tbs" \in DOMAIN params /\ params.tbs = "qdr:d" THEN 1
    ELSE IF "limit" \in DOMAIN params THEN params.limit ELSE DefaultLimit

\* self.search_params.get("limit", 5)
GetLimit(params) == IF "limit" \in DOMAIN params THEN params.limit ELSE DefaultLimit

Init ==
    /\ pc = "ddg"
    /\ search_query \in Queries
    /\ search_params \in [limit : 0..MaxLimit]
    /\ search_limit = GetLimit(search_params)
    /\ collected_urls = <<>>
    /\ strategy_limit = 0
    /\ site_index = 0
    /\ strategy_urls = <<>>
    /\ scrape_urls = <<>>
    /\ scrape_index = 0
    /\ search_results = <<>>
    /\ http_log = <<>>
    /\ ret = [kind |-> "none"]
    /\ caught = "none"
    /\ cancelled = FALSE
    /\ NoSession
    /\ NoFunction

\* session.get: the request is logged by who issued it and by the position (in news_sites,
\* direct_checks or urls) of the URL it asks for; a fetch of the fetch loop also by
\* whether an answer with status 200 came back, whether _scrape_content reported success,
\* the error it reported and the page that came back (<<>> for a strategy's request)
Logged(by, n, ok, success, error, page) ==
    http_log' = Append(http_log, [ by |-> by, n |-> n, ok |-> ok, success |-> success,
                                   error |-> error, page |-> page ])

Answered(response) == response.kind = "http" /\ response.status = 200

\* what the except clause around a strategy's request catches (the exception session.get or
\* raise_for_status raised), or the status that fails the test "status_code == 200"
Failure(response) ==
    IF response.kind = "exception" THEN "exception"
    ELSE IF response.status # 200 THEN "http error"
    ELSE "none"

\* a slip of Extend: urls = more instead of urls.extend(more)
Extend_replace(urls, more) == more

\* a slip of Extend: what a later strategy found is put in front
Extend_front(urls, more) == more \o urls

\* urls.extend(more)
Extend(urls, more) == urls \o more

\* the URL a logged request asked for
RequestUrl(request) ==
    CASE request.by = "ddg" -> search_url(search_query)
      [] request.by = "alt" -> news_sites(search_query)[request.n]
      [] request.by = "news" -> direct_checks[request.n]
      [] request.by = "scrape" -> scrape_urls[request.n]

\* a slip of StartStrategy: with the quota not filled the engine strategy is tried again
StartStrategy_again(name, urls) ==
    /\ pc' = "ddg"
    /\ collected_urls' = urls
    /\ strategy_limit' = search_limit - Len(urls)
    /\ site_index' = 1
    /\ strategy_urls' = <<>>
    /\ UNCHANGED <<scrape_urls, scrape_index, ret>>

\* _search_urls goes on to the next strategy, asking it for what is missing
StartStrategy(name, urls) ==
    /\ pc' = name
    /\ collected_urls' = urls
    /\ strategy_limit' = search_limit - Len(urls)
    /\ site_index' = 1
    /\ strategy_urls' = <<>>
    /\ UNCHANGED <<scrape_urls, scrape_index, ret>>

\* a slip of EndDiscovery: "if not urls" is not tested, so with no URL the fetch loop runs
\* zero times and "if not results" answers
EndDiscovery_unchecked(urls) ==
    LET returned == MergeUrls(urls, search_limit)
    IN  /\ collected_urls' = urls
        /\ strategy_limit' = 0
        /\ site_index' = 0
        /\ strategy_urls' = <<>>
        /\ scrape_urls' = returned
        /\ IF returned = <<>>
           THEN /\ pc' = "done"
                /\ scrape_index' = 0
                /\ ret' = NoContent(search_query)
           ELSE /\ pc' = "scrape"
                /\ scrape_index' = 1
                /\ ret' = ret

\* the end of _search_urls (remove duplicates, validate, cut to limit) and the code of
\* custom_web_search up to the fetch loop
EndDiscovery(urls) ==
    LET returned == MergeUrls(urls, search_limit)
    IN  /\ collected_urls' = urls
        /\ strategy_limit' = 0
        /\ site_index' = 0
        /\ strategy_urls' = <<>>
        /\ scrape_urls' = returned
        /\ IF returned = <<>>
           THEN /\ pc' = "done"
                /\ scrape_index' = 0
                /\ ret' = NoSearchResults(search_query)
           ELSE /\ pc' = "scrape"
                /\ scrape_index' = 1
                /\ ret' = ret

\* Method 1 of _search_urls, _duckduckgo_search_improved, when its request gets response
DdgStep(response) ==
    /\ pc = "ddg"
    /\ LET ddg_urls == _duckduckgo_search_improved(response, search_limit)
           urls == Extend(collected_urls, ddg_urls)
       IN  /\ Logged("ddg", 1, TRUE, TRUE, "none", <<>>)
           /\ caught' = Failure(response)
           /\ IF Len(urls) < search_limit
              THEN StartStrategy("alt", urls)
              ELSE EndDiscovery(urls)
    /\ UNCHANGED <<search_query, search_params, search_limit, search_results, cancelled>>

\* Method 1 of _search_urls: _duckduckgo_search_improved
DuckDuckGo ==
    /\ \E response \in DdgResponses : DdgStep(response)
    /\ UNCHANGED <<session_vars, fn_vars>>

\* Method 2 of _search_urls, one site of _alternative_search, when its request gets
\* response
AltStep(response) ==
    /\ pc = "alt"
    /\ LET sites == Prefix(news_sites(search_query), strategy_limit)
           site_url == sites[site_index]
           fallback_urls == IF NotOk(response) THEN strategy_urls
                            ELSE AltScan(response.links, strategy_urls, strategy_limit,
                                         site_url)
           filled == ~NotOk(response) /\ Len(fallback_urls) >= strategy_limit
           urls == Extend(collected_urls, Prefix(fallback_urls, strategy_limit))
       IN  /\ Logged("alt", site_index, TRUE, TRUE, "none", <<>>)
           /\ caught' = Failure(response)
           /\ IF filled \/ site_index = Len(sites)
              THEN IF Len(urls) < search_limit
                   THEN StartStrategy("news", urls)
                   ELSE EndDiscovery(urls)
              ELSE /\ site_index' = site_index + 1
                   /\ strategy_urls' = fallback_urls
                   /\ UNCHANGED <<pc, collected_urls, strategy_limit, scrape_urls,
                                  scrape_index, ret>>
    /\ UNCHANGED <<search_query, search_params, search_limit, search_results, cancelled>>

\* Method 2 of _search_urls: one site of _alternative_search
AlternativeSearch ==
    /\ \E response \in SiteResponses : AltStep(response)
    /\ UNCHANGED <<session_vars, fn_vars>>

\* Method 3 of _search_urls, one site of _search_news_sites, when its request gets response
\* in the year current_year
NewsStep(response, current_year) ==
    /\ pc = "news"
    /\ LET site_url == direct_checks[site_index]
           news_urls == IF NotOk(response) THEN strategy_urls
                        ELSE NewsScan(response.links, strategy_urls, strategy_limit,
                                      site_url, current_year)
           urls == Extend(collected_urls, Prefix(news_urls, strategy_limit))
       IN  /\ Logged("news", site_index, TRUE, TRUE, "none", <<>>)
           /\ caught' = Failure(response)
           /\ IF Len(news_urls) >= strategy_limit \/ site_index = Len(direct_checks)
              THEN EndDiscovery(urls)
              ELSE /\ site_index' = site_index + 1
                   /\ strategy_urls' = news_urls
                   /\ UNCHANGED <<pc, collected_urls, strategy_limit, scrape_urls,
                                  scrape_index, ret>>
    /\ UNCHANGED <<search_query, search_params, search_limit, search_results, cancelled>>

\* Method 3 of _search_urls: one site of _search_news_sites
NewsSites ==
    /\ \E response \in SiteResponses, current_year \in CurrentYears :
         NewsStep(response, current_year)
    /\ UNCHANGED <<session_vars, fn_vars>>

\* a slip of LastTurn: the fetch loop is left at the first failed document
LastTurn_break(index, urls, content) == index = Len(urls) \/ ~content.success

\* "for i, url in enumerate(urls[:limit])" has no further URL after this one
LastTurn(index, urls, content) == index = Len(urls)

\* one turn of the fetch loop of custom_web_search when its request gets response and,
\* after the last turn, the return
ScrapeStep(response) ==
    /\ pc = "scrape"
    /\ LET url == Prefix(scrape_urls, search_limit)[scrape_index]
           content == _scrape_content(url, response)
           results == IF content.success THEN Append(search_results, content)
                      ELSE search_results
       IN  /\ Logged("scrape", scrape_index, Answered(response), content.success,
                     IF content.success THEN "none" ELSE content.error, response.page)
           /\ search_results' = results
           /\ IF LastTurn(scrape_index, Prefix(scrape_urls, search_limit), content)
              THEN /\ pc' = "done"
                   /\ ret' = IF results = <<>> THEN NoContent(search_query)
                             ELSE _format_results(results, search_query)
                   /\ UNCHANGED scrape_index
              ELSE /\ scrape_index' = scrape_index + 1
                   /\ UNCHANGED <<pc, ret>>
    /\ caught' = "none"
    /\ UNCHANGED <<search_query, search_params, search_limit, collected_urls, strategy_limit,
                   site_index, strategy_urls, scrape_urls, cancelled>>

\* one turn of the fetch loop of custom_web_search and, after the last, the return
Scrape ==
    /\ \E response \in ArticleResponses : ScrapeStep(response)
    /\ UNCHANGED <<session_vars, fn_vars>>

Next == DuckDuckGo \/ AlternativeSearch \/ NewsSites \/ Scrape

Spec == Init /\ [][Next]_vars

\* the caller gives up on a call that is under way (its deadline passes, the user leaves);
\* custom_web_search(self, query) takes no deadline or cancellation argument and reads no
\* such signal
Cancel ==
    /\ pc # "done"
    /\ ~cancelled
    /\ cancelled' = TRUE
    /\ UNCHANGED <<pc, search_query, search_params, search_limit, collected_urls,
                   strategy_limit, site_index, strategy_urls, scrape_urls, scrape_index,
                   search_results, http_log, ret, caught, session_vars, fn_vars>>

NextCancel == Next \/ Cancel

SpecCancel == Init /\ [][NextCancel]_vars

(***************************************************************************)
(* Properties of the search call.                                          *)
(***************************************************************************)
\* the fetches of the fetch loop, in order
ScrapeLog == SelectSeq(http_log, LAMBDA request : request.by = "scrape")

Count(log, Test(_)) == Len(SelectSeq(log, Test))

\* the URLs written in a rendered report
RenderedUrls(report) ==
    {report.articles[k].url : k \in 1..Len(report.articles)}
    \cup {report.articles[k].source_link.url : k \in 1..Len(report.articles)}

RenderedTitles(report) ==
    {report.articles[k].title : k \in 1..Len(report.articles)}
    \cup {report.articles[k].source_link.title : k \in 1..Len(report.articles)}

\* the Validator of the specification, stated on the parts of the URL: scheme, host,
\* excluded domains, article-like indicator
PassesValidator(url) ==
    /\ Len(url) >= 5
    /\ Lower(url[1]) \in {"http", "https"}
    /\ url[2] = ":" /\ url[3] = "/" /\ url[4] = "/"
    /\ url[5] \notin NetlocEnd
    /\ ~HostExcluded(url)
    /\ \E w \in { "news", "article", "story", "post", "blog", "2024", "2025",
                  "artificial-intelligence", "ai", "tech", "technology" } :
          \E k \in 1..(Len(url) - 2) :
              url[k] = "/" /\ Lower(url[k + 1]) = w /\ url[k + 2] = "/"

Min(a, b) == IF a < b THEN a ELSE b

\* C1: the number of documents placed in the report is at most the configured limit.
C1_AtMostLimit ==
    /\ Len(search_results) <= search_params.limit
    /\ ret.kind = "report" =>
          /\ Len(ret.articles) <= search_params.limit
          /\ ret.results_found <= search_params.limit

\* with limit 2, two strategies found URLs and the report holds as many documents as the
\* limit allows
C1_Witness ==
    /\ pc = "done"
    /\ search_params.limit = 2
    /\ ret.kind = "report"
    /\ Len(ret.articles) = 2
    /\ \E k \in 1..Len(http_log) : http_log[k].by = "alt"

\* C2: the list _search_urls returns never holds the same URL twice.
C2_NoDuplicates ==
    \A a, b \in 1..Len(scrape_urls) : a # b => scrape_urls[a] # scrape_urls[b]

\* the engine strategy and a later strategy returned the same URL, and _search_urls
\* returned it once
C2_Witness ==
    /\ pc = "scrape"
    /\ Len(collected_urls) = 2
    /\ collected_urls[1] = collected_urls[2]
    /\ \E k \in 1..Len(http_log) : http_log[k].by = "alt"
    /\ scrape_urls = <<collected_urls[1]>>

\* C3: every URL _search_urls returns passes the full Validator: http/https scheme, a host,
\* no excluded domain in the host, an article-like indicator in the URL.
C3_AllValidated ==
    \A k \in 1..Len(scrape_urls) : PassesValidator(scrape_urls[k])

\* all three strategies ran and _search_urls returned a URL only the engine strategy can
\* find (behind a redirect link) and one only the direct listing can find
C3_Witness ==
    /\ pc = "scrape"
    /\ Len(scrape_urls) = 2
    /\ scrape_urls[1] = <<"https", ":", "/", "/", "example.org", "/", "news", "/", "a">>
    /\ scrape_urls[2] = UrlNextYear
    /\ \E k \in 1..Len(http_log) : http_log[k].by = "alt"
    /\ \E k \in 1..Len(http_log) : http_log[k].by = "news"

\* C7: if all three strategies return nothing, custom_web_search returns the "no search
\* results" text for the query as its value, and performs no document fetch.
C7_EmptyResult ==
    (pc = "done" /\ collected_urls = <<>>) =>
        /\ ret = [ kind |-> "message",
                   text |-> <<"No search results found for query: ", search_query,
                              ". Please try a different search term.">> ]
        /\ search_results = <<>>
        /\ ScrapeLog = <<>>

\* the engine, two sites of the site search and the five listing pages were all asked and
\* gave nothing
C7_Witness ==
    /\ pc = "done"
    /\ collected_urls = <<>>
    /\ search_params.limit = 2
    /\ Len(http_log) = 1 + 2 + Len(direct_checks)
    /\ http_log[1].by = "ddg" /\ http_log[3].by = "alt" /\ http_log[8].by = "news"
    /\ ret.kind = "message"

\* every fetch of the fetch loop gave a document
AllFetchesSucceeded ==
    /\ pc = "done"
    /\ Len(search_results) = Len(ScrapeLog)

RECURSIVE SumOf(_)
SumOf(numbers) == IF numbers = <<>> THEN 0 ELSE Head(numbers) + SumOf(Tail(numbers))

\* C9: when all fetches succeed the report has min(limit, number of distinct valid
\* discovered URLs) documents (2 documents when limit = 2 and two strategies return one
\* URL each), its total word count is the sum of the documents' word counts, and every
\* document's title and URL are in the formatted output.
C9_FullReport ==
    AllFetchesSucceeded =>
        LET discovered == {collected_urls[k] : k \in 1..Len(collected_urls)}
            n == Min(search_params.limit, Cardinality({u \in discovered : PassesValidator(u)}))
        IN  IF n = 0 THEN ret.kind = "message"
            ELSE /\ ret.kind = "report"
                 /\ ret.results_found = n
                 /\ Len(ret.articles) = n
                 /\ ret.total_content
                      = SumOf([k \in 1..n |-> ret.articles[k].word_count])
                 /\ ret.total_content
                      = SumOf([k \in 1..Len(search_results) |-> search_results[k].word_count])
                 /\ \A k \in 1..Len(search_results) :
                       /\ search_results[k].url \in RenderedUrls(ret)
                       /\ search_results[k].title \in RenderedTitles(ret)
                 /\ \A k \in 1..n : scrape_urls[k] \in RenderedUrls(ret)

\* limit 2, the engine and the site search returned one URL each, both fetches succeeded:
\* a report of two documents with different titles
C9_Witness ==
    /\ AllFetchesSucceeded
    /\ search_params.limit = 2
    /\ Len(http_log) = 4
    /\ http_log[2].by = "alt"
    /\ ret.kind = "report"
    /\ ret.results_found = 2
    /\ ret.articles[1].title # ret.articles[2].title
    /\ ret.articles[1].url # ret.articles[2].url
    /\ ret.total_content = ret.articles[1].word_count + ret.articles[2].word_count

\* C10: the report contains exactly the documents whose fetch and extraction succeeded,
\* and the URL of a failed fetch is nowhere in the rendered report.
C10_OnlySuccessful ==
    pc = "done" =>
        /\ \A k \in 1..Len(ScrapeLog) : ScrapeLog[k].success => ScrapeLog[k].ok
        /\ Len(search_results) = Count(ScrapeLog, LAMBDA request : request.ok /\ request.success)
        /\ ret.kind = "report" =>
              /\ Len(ret.articles) = Len(search_results)
              /\ \A k \in 1..Len(ScrapeLog) :
                    ~ScrapeLog[k].ok => scrape_urls[ScrapeLog[k].n] \notin RenderedUrls(ret)
        /\ (ScrapeLog # <<>> /\ search_results = <<>>) => ret.kind = "message"

\* two fetches, one failed: a report of one document
C10_Witness ==
    /\ pc = "done"
    /\ Len(ScrapeLog) = 2
    /\ Count(ScrapeLog, LAMBDA request : ~request.ok) = 1
    /\ ret.kind = "report"
    /\ Len(ret.articles) = 1

\* s is the beginning of t
IsPrefix(s, t) == Len(s) <= Len(t) /\ SubSeq(t, 1, Len(s)) = s

\* C12: a failure inside a discovery strategy never aborts discovery: the URLs collected so
\* far are kept, the strategy's next request or the next strategy follows whenever the quota
\* is not filled, and _search_urls returns normally.
C12_StrategyFailureContained ==
    [][ (pc \in {"ddg", "alt", "news"} /\ caught' # "none") =>
          /\ IsPrefix(collected_urls, collected_urls')
          /\ pc' \in {"alt", "news", "scrape", "done"}
          /\ ret'.kind \in {"none", "message"}
          /\ Len(collected_urls') < search_limit =>
                \/ pc = "ddg" /\ pc' = "alt"
                \/ pc = "alt" /\ pc' = "alt" /\ site_index' = site_index + 1
                \/ pc = "alt" /\ pc' = "news"
                \/ pc = "news" /\ pc' = "news" /\ site_index' = site_index + 1
                \/ pc = "news" /\ site_index = Len(direct_checks)
          /\ pc' = "scrape" => scrape_urls' # <<>> /\ \A k \in 1..Len(scrape_urls') :
                                  \E j \in 1..Len(collected_urls') :
                                      scrape_urls'[k] = collected_urls'[j]
          /\ pc' = "done" => scrape_urls' = <<>>
      ]_vars

\* the engine strategy found a URL, the last request of the site search raised, and the
\* direct listing is about to run with that URL kept
C12_Witness ==
    /\ pc = "news"
    /\ caught = "exception"
    /\ collected_urls = << <<"https", ":", "/", "/", "example.org", "/", "news", "/", "a">> >>
    /\ site_index = 1
    /\ http_log[Len(http_log)].by = "alt"

\* C13: in the fetch loop a failed fetch gives a failed document with its error reason and
\* the loop goes on: each of the first `limit` URLs _search_urls returned is fetched exactly
\* once, in order, whatever the earlier fetches gave.
C13_EveryUrlAttempted ==
    LET attempts == Min(search_params.limit, Len(scrape_urls))
    IN  /\ Len(ScrapeLog) <= attempts
        /\ \A k \in 1..Len(ScrapeLog) :
              /\ ScrapeLog[k].n = k
              /\ ~ScrapeLog[k].ok => ~ScrapeLog[k].success /\ ScrapeLog[k].error # "none"
        /\ pc = "scrape" => scrape_index = Len(ScrapeLog) + 1 /\ scrape_index <= attempts
        /\ pc = "done" => Len(ScrapeLog) = attempts

\* two URLs: the first fetch raised, the second was still made and gave the only document
C13_Witness ==
    /\ pc = "done"
    /\ Len(scrape_urls) = 2
    /\ Len(ScrapeLog) = 2
    /\ ~ScrapeLog[1].ok /\ ScrapeLog[1].error = "timeout"
    /\ ScrapeLog[2].success
    /\ Len(search_results) = 1
    /\ search_results[1].url = scrape_urls[2]

\* C14: a limit outside 1..10 is rejected before any network activity: for such a limit
\* custom_web_search makes no HTTP request at all and returns no report or message of a
\* search.
C14_RejectedBeforeNetwork ==
    search_params.limit \notin 1..10 => http_log = <<>> /\ ret.kind = "none"

Words(piece) ==
    CASE piece = "No search results found for query: "
           -> <<"no", "search", "results", "found", "for", "query:">>
      [] piece = ". Please try a different search term."
           -> <<".", "please", "try", "a", "different", "search", "term.">>
      [] piece = "No content could be extracted from search results for: "
           -> <<"no", "content", "could", "be", "extracted", "from", "search", "results", "for:">>
      [] piece = "No results found for query: "
           -> <<"no", "results", "found", "for", "query:">>
      [] piece = "test topic" -> <<"test", "topic">>
      [] OTHER -> <<piece>>

RECURSIVE TextWords(_)
TextWords(text) == IF text = <<>> THEN <<>> ELSE Words(Head(text)) \o TextWords(Tail(text))

\* the character U+274C (cross mark)
CrossMark == "U+274C"

\* what a caller can look for in the returned text: the words "no results" (in any case),
\* or the cross mark that create_fallback_newsletter tests the text for
HasSentinel(text) ==
    \/ Contains(<<"no", "results">>, TextWords(text))
    \/ Contains(<<CrossMark>>, TextWords(text))

\* C16: whenever no document succeeds (no URL was found, or every fetch or extraction
\* failed) the search returns a message that contains the "no results" sentinel callers
\* look for.
C16_EmptyHasSentinel ==
    (pc = "done" /\ search_results = <<>>) =>
        ret.kind = "message" /\ HasSentinel(ret.text)

\* C17: once the caller has cancelled the call, no further strategy request and no further
\* fetch is made, and no report is returned.
C17_CancelStopsSearch ==
    [][cancelled => (http_log' = http_log /\ ret'.kind # "report")]_vars

(***************************************************************************)
(* Calls of custom_web_search running at the same time on one tool         *)
(* instance (one thread each).  Of a call only its requests are kept: each *)
(* is _rotate_headers() followed by self.session.get(...), two steps that  *)
(* another thread can come between.                                        *)
(***************************************************************************)
MaxCalls == 2

MaxRequests == 2

\* self.user_agents
user_agents == {"Chrome/Windows", "Chrome/Mac", "Firefox/Windows", "Safari/Mac"}

Calls == 1..MaxCalls

\* __init__ made the session and rotated the headers once; every call is about to make its
\* first request
InitSession ==
    /\ NoSearch
    /\ NoFunction
    /\ session_headers \in user_agents
    /\ calls = [ c \in Calls |-> [ at |-> "rotate", chose |-> "none", left |-> MaxRequests,
                                  carried |-> <<>> ] ]

\* self._rotate_headers(): self.session.headers.update({'User-Agent': random.choice(...)})
_rotate_headers(c) ==
    /\ calls[c].at = "rotate"
    /\ \E agent \in user_agents :
         /\ session_headers' = agent
         /\ calls' = [calls EXCEPT ![c].at = "get", ![c].chose = agent]
    /\ UNCHANGED <<search_vars, fn_vars>>

\* self.session.get(url): the request is sent with the headers the session holds now;
\* carried keeps them beside the ones this call had chosen for the request
SessionGet(c) ==
    /\ calls[c].at = "get"
    /\ calls' = [ calls EXCEPT ![c].carried = <<session_headers, calls[c].chose>>,
                               ![c].left = calls[c].left - 1,
                               ![c].at = IF calls[c].left = 1 THEN "done" ELSE "rotate" ]
    /\ UNCHANGED <<session_headers, search_vars, fn_vars>>

NextSession == \E c \in Calls : _rotate_headers(c) \/ SessionGet(c)

SpecSession == InitSession /\ [][NextSession]_vars

\* C18: a request of one call carries the headers that call itself set: no rotation made
\* by another call running at the same time (on the same tool instance) changes them.
C18_OwnHeaders ==
    \A c \in Calls : calls[c].carried # <<>> => calls[c].carried[1] = calls[c].carried[2]

\* the strategies _search_urls has invoked so far
Invoked == { http_log[i].by : i \in 1..Len(http_log) } \ {"scrape"}

\* C19: the quantity compared with limit after a strategy is the size of the validated,
\* de-duplicated set: a later strategy is asked for limit minus that size, and _search_urls
\* never returns fewer than limit URLs while a later strategy was left un-invoked.
C19_QuotaOnDeduplicated ==
    /\ pc \in {"alt", "news"} =>
         strategy_limit = search_limit - Len(MergeUrls(collected_urls, search_limit))
    /\ (pc \in {"scrape", "done"} /\ Len(scrape_urls) < search_limit) =>
         {"alt", "news"} \subseteq Invoked

\* the place of the first occurrence of url in urls
FirstIndex(url, urls) ==
    CHOOSE i \in 1..Len(urls) : urls[i] = url /\ \A j \in 1..(i - 1) : urls[j] # url

\* part holds URLs of whole, each once, in the order of their first occurrences in whole
InOrderOf(part, whole) ==
    /\ \A k \in 1..Len(part) : \E i \in 1..Len(whole) : whole[i] = part[k]
    /\ \A j, k \in 1..Len(part) :
         j < k => FirstIndex(part[j], whole) < FirstIndex(part[k], whole)

\* the URLs of the documents in results, in the order of results
ResultUrls(results) == [ i \in 1..Len(results) |-> results[i].url ]

\* C20: first occurrence wins and strategy priority is kept: what a strategy contributes
\* follows, in the order it produced it, everything collected before it; _search_urls returns
\* the URLs in the order of their first occurrences, skipping none that is valid; the
\* successful documents, and the report, are in the order of the returned URLs.
C20_PriorityOrderKept ==
    [][ /\ pc \in {"ddg", "alt", "news"} => IsPrefix(collected_urls, collected_urls')
        /\ InOrderOf(scrape_urls', collected_urls')
        /\ \A i \in 1..Len(collected_urls') :
             ( /\ _is_valid_url(collected_urls'[i])
               /\ \E k \in 1..Len(scrape_urls') :
                    FirstIndex(scrape_urls'[k], collected_urls') > i )
             => \E k \in 1..Len(scrape_urls') : scrape_urls'[k] = collected_urls'[i]
        /\ InOrderOf(ResultUrls(search_results'), scrape_urls')
        /\ ret'.kind = "report" =>
             ResultUrls(ret'.articles) = ResultUrls(search_results') ]_vars

\* the engine strategy found one URL, the direct listing another, and both documents are in
\* the report, the engine's first
C20_Witness ==
    /\ pc = "done"
    /\ ret.kind = "report"
    /\ collected_urls = << <<"https", ":", "/", "/", "example.org", "/", "news", "/", "a">>,
                           UrlNextYear >>
    /\ \E k \in 1..Len(http_log) : http_log[k].by = "news"
    /\ Len(ret.articles) = 2
    /\ ret.articles[1].url = collected_urls[1]
    /\ ret.articles[2].url = UrlNextYear

(***************************************************************************)
(* SpecStrategy: one discovery strategy called on its own with a target of *)
(* limit URLs, one action per session.get.  fn_out keeps the strategy's    *)
(* list, the number of requests made, and of the last page its links, the  *)
(* length of the list before it and the number of links the scan examined. *)
(***************************************************************************)
\* the number of links the loop of _duckduckgo_search_improved examines
RECURSIVE DdgScanned(_, _, _)
DdgScanned(links, urls, limit) ==
    IF links = <<>> THEN 0
    ELSE LET href == Head(links)
             found == DdgScan(<<href>>, urls, Len(urls) + 2)
         IN  IF IsRedirect(href) /\ RedirectValue(href) = <<>>
             THEN 1 + DdgScanned(Tail(links), urls, limit)                    \* continue
             ELSE IF Len(found) >= limit THEN 1                               \* break
             ELSE 1 + DdgScanned(Tail(links), found, limit)

\* the number of links the loop over one site's links of _alternative_search examines
RECURSIVE AltScanned(_, _, _, _)
AltScanned(links, fallback_urls, limit, site_url) ==
    IF links = <<>> THEN 0
    ELSE LET found == AltScan(<<Head(links)>>, fallback_urls, Len(fallback_urls) + 2, site_url)
         IN  IF Len(found) > Len(fallback_urls) /\ Len(found) >= limit THEN 1
             ELSE 1 + AltScanned(Tail(links), found, limit, site_url)

\* the number of links the loops over one site's links of _search_news_sites examine
RECURSIVE NewsScanned(_, _, _, _, _)
NewsScanned(links, news_urls, limit, site_url, current_year) ==
    IF links = <<>> THEN 0
    ELSE LET found == NewsScan(<<Head(links)>>, news_urls, Len(news_urls) + 2, site_url,
                               current_year)
         IN  IF Len(found) > Len(news_urls) /\ Len(found) >= limit THEN 1
             ELSE 1 + NewsScanned(Tail(links), found, limit, site_url, current_year)

Strategies == {"ddg", "alt", "news"}

\* the sites "for site_url in news_sites[:limit]" / "for site_url in direct_checks" visits
StrategySites(strategy, query, limit) ==
    CASE strategy = "ddg" -> <<search_url(query)>>
      [] strategy = "alt" -> Prefix(news_sites(query), limit)
      [] strategy = "news" -> direct_checks

InitStrategy ==
    /\ NoSearch
    /\ NoSession
    /\ fn_pc = "ready"
    /\ fn_in \in [ strategy : Strategies, query : Queries, limit : 0..MaxLimit,
                   current_year : CurrentYears ]
    /\ fn_out = <<>>

\* the strategy returns urls[:limit]
StrategyReturn(urls, requests, before, links, scanned) ==
    /\ fn_pc' = "done"
    /\ fn_out' = [ urls |-> Prefix(urls, fn_in.limit), requests |-> requests,
                   before |-> before, links |-> links, scanned |-> scanned ]

\* the strategy goes on to its next site
StrategyNextSite(urls, requests, before, links, scanned) ==
    /\ fn_pc' = "running"
    /\ fn_out' = [ urls |-> urls, requests |-> requests, before |-> before, links |-> links,
                   scanned |-> scanned ]

\* the call of the strategy, up to its first session.get or, when its loop over the sites
\* has no first turn (news_sites[:0]; "if len(news_urls) >= limit: break" with limit 0),
\* to its return
CallStrategy ==
    /\ fn_pc = "ready"
    /\ IF \/ StrategySites(fn_in.strategy, fn_in.query, fn_in.limit) = <<>>
          \/ fn_in.strategy = "news" /\ 0 >= fn_in.limit
       THEN StrategyReturn(<<>>, 0, 0, <<>>, 0)
       ELSE StrategyNextSite(<<>>, 0, 0, <<>>, 0)
    /\ UNCHANGED <<fn_in, search_vars, session_vars>>

\* _duckduckgo_search_improved: its request, the scan of the result page and the return
DdgFind ==
    /\ fn_pc = "running"
    /\ fn_in.strategy = "ddg"
    /\ \E response \in DdgResponses :
         StrategyReturn(IF Raised(response) THEN <<>>
                        ELSE DdgScan(response.links, <<>>, fn_in.limit),
                        1, 0, response.links,
                        IF Raised(response) THEN 0
                        ELSE DdgScanned(response.links, <<>>, fn_in.limit))
    /\ UNCHANGED <<fn_in, search_vars, session_vars>>

\* one turn of "for site_url in news_sites[:limit]" of _alternative_search
AltFind ==
    /\ fn_pc = "running"
    /\ fn_in.strategy = "alt"
    /\ \E response \in SiteResponses :
         LET sites == StrategySites("alt", fn_in.query, fn_in.limit)
             n == fn_out.requests + 1
             fallback_urls == IF NotOk(response) THEN fn_out.urls
                              ELSE AltScan(response.links, fn_out.urls, fn_in.limit, sites[n])
             scanned == IF NotOk(response) THEN 0
                        ELSE AltScanned(response.links, fn_out.urls, fn_in.limit, sites[n])
         IN  IF (~NotOk(response) /\ Len(fallback_urls) >= fn_in.limit) \/ n = Len(sites)
             THEN StrategyReturn(fallback_urls, n, Len(fn_out.urls), response.links, scanned)
             ELSE StrategyNextSite(fallback_urls, n, Len(fn_out.urls), response.links,
                                   scanned)
    /\ UNCHANGED <<fn_in, search_vars, session_vars>>

\* one turn of "for site_url in direct_checks" of _search_news_sites
NewsFind ==
    /\ fn_pc = "running"
    /\ fn_in.strategy = "news"
    /\ \E response \in SiteResponses :
         LET n == fn_out.requests + 1
             news_urls == IF NotOk(response) THEN fn_out.urls
                          ELSE NewsScan(response.links, fn_out.urls, fn_in.limit,
                                        direct_checks[n], fn_in.current_year)
             scanned == IF NotOk(response) THEN 0
                        ELSE NewsScanned(response.links, fn_out.urls, fn_in.limit,
                                         direct_checks[n], fn_in.current_year)
         IN  IF Len(news_urls) >= fn_in.limit \/ n = Len(direct_checks)
             THEN StrategyReturn(news_urls, n, Len(fn_out.urls), response.links, scanned)
             ELSE StrategyNextSite(news_urls, n, Len(fn_out.urls), response.links, scanned)
    /\ UNCHANGED <<fn_in, search_vars, session_vars>>

NextStrategy == CallStrategy \/ DdgFind \/ AltFind \/ NewsFind

SpecStrategy == InitStrategy /\ [][NextStrategy]_vars

\* the links of a page that the strategy's scan takes as matches, in order
Matches(strategy, links, site_url, current_year) ==
    CASE strategy = "ddg" -> DdgScan(links, <<>>, Len(links) + 1)
      [] strategy = "alt" -> AltScan(links, <<>>, Len(links) + 1, site_url)
      [] strategy = "news" -> NewsScan(links, <<>>, Len(links) + 1, site_url, current_year)

\* the site the strategy's last request asked
LastSite == StrategySites(fn_in.strategy, fn_in.query, fn_in.limit)[fn_out.requests]

\* the strategy holds at most limit URLs when it returns, and only ones _is_news_url accepts
AtMostAndArticles ==
    /\ fn_pc = "done" => Len(fn_out.urls) <= fn_in.limit
    /\ \A k \in 1..Len(fn_out.urls) : _is_news_url(fn_out.urls[k])

\* no link was examined, and no site of a site strategy asked, once limit matches had been
\* found
StoppedAtLimit ==
    /\ (fn_in.strategy # "ddg" /\ fn_out.requests >= 1) => fn_out.before < fn_in.limit
    /\ \A i \in 1..fn_out.scanned :
          fn_out.before + Len(Matches(fn_in.strategy, SubSeq(fn_out.links, 1, i - 1),
                                      LastSite, fn_in.current_year)) < fn_in.limit

\* C21 as stated: each strategy, called with remaining_count = n >= 0, returns at most n
\* URLs, each accepted by _is_news_url, and stops scanning as soon as n matches have been
\* found.
C21_Original ==
    fn_pc \in {"running", "done"} => (AtMostAndArticles /\ StoppedAtLimit)

\* C21: each strategy, called with remaining_count = n >= 0, returns at most n URLs, each
\* accepted by _is_news_url; called with n >= 1 it stops scanning as soon as n matches have
\* been found; called with n = 0 the two site strategies make no request and the engine
\* strategy makes its request and returns nothing.
C21_StrategyContract ==
    fn_pc \in {"running", "done"} =>
        /\ AtMostAndArticles
        /\ fn_in.limit >= 1 => StoppedAtLimit
        /\ fn_in.limit = 0 =>
             /\ fn_out.urls = <<>>
             /\ fn_in.strategy # "ddg" => (fn_pc = "done" /\ fn_out.requests = 0)
             /\ (fn_in.strategy = "ddg" /\ fn_pc = "done") => fn_out.requests = 1

\* a strategy asked for one URL stopped at the first match of a page that holds another
C21_Witness ==
    /\ fn_pc = "done"
    /\ fn_in.limit = 1
    /\ fn_out.urls = <<UrlDated>>
    /\ fn_out.links = <<UrlDated, UrlNextYear>>
    /\ fn_out.scanned = 1
    /\ fn_in.strategy = "news"
    /\ fn_in.current_year = 2026
    /\ fn_out.requests = 2

\* C22: the site-search strategy fetches the sites of its fixed list in order and stops
\* early only once its quota is filled: it never returns with fewer than remaining_count
\* matches while a site of the list is unfetched.
C22_EverySiteUntilFilled ==
    (fn_in.strategy = "alt" /\ fn_pc = "done" /\ Len(fn_out.urls) < fn_in.limit) =>
        fn_out.requests = Len(news_sites(fn_in.query))

\* C23: _is_recent_article accepts a URL only if _is_news_url accepts it and it holds a
\* year segment equal to the current year or the year before, whatever the current year.
C23_RecentOnly ==
    (fn_pc = "done" /\ "recent" \in DOMAIN fn_out /\ fn_out.recent) =>
        /\ fn_out.news
        /\ \/ Contains(<<"/", YearToken(fn_in.current_year), "/">>, fn_in.url)
           \/ Contains(<<"/", YearToken(fn_in.current_year - 1), "/">>, fn_in.url)

\* C24: a cleaned text of more than 3000 characters is cut after the last sentence
\* terminator of its first 3000 characters if and only if that terminator is one of the
\* last 500 of them (positions 2500 to 2999); otherwise it is cut at 3000 characters and
\* the ellipsis marker is appended.
C24_CutInsideLast500 ==
    (fn_pc = "done" /\ fn_in # <<>> /\ TLen(Normalised(fn_in)) > MaxContentLen) =>
        LET truncated == TTake(Normalised(fn_in), MaxContentLen)
            position == last_sentence(truncated)
        IN  IF position \in (MaxContentLen - 500)..(MaxContentLen - 1)
            THEN fn_out = TStrip(TTake(truncated, position + 1))
            ELSE fn_out = TStrip(truncated \o Ellipsis)

\* C25: _extract_title never returns an empty title: it returns the cleaned and capped text
\* of the first match longer than 5 characters, or "Untitled Article"; a matched text that
\* the cut at the first pipe or hyphen leaves empty is not returned.
C25_TitleNeverEmpty ==
    fn_pc = "done" =>
        /\ TLen(fn_out) > 0
        /\ \/ fn_out = UntitledArticle
           \/ fn_out = CapTitle(CleanTitle(MatchedTitle(fn_in)))

\* no container of the page and no paragraph fallback yields more than 300 characters
NothingQualifies(page) ==
    /\ \A i \in 1..Len(page.containers) : TLen(page.containers[i]) <= MinContainerLen
    /\ \/ page.paragraphs = <<>>
       \/ TLen(JoinLines(SelectSeq(StripAll(page.paragraphs),
                                   LAMBDA text : TLen(text) > MinParagraphLen)))
            <= MinContainerLen

\* the extraction-failure marker occurs in the text
HasMarker(text) == \E i \in 1..Len(text) : text[i].c = "Content extraction failed"

\* C26: when no container and no paragraph fallback of a fetched page yields more than 300
\* characters, the extracted body is the extraction-failure marker, the document is marked
\* unsuccessful, and neither the marker nor the document's URL is in the results or the
\* report.
C26_FailedExtractionKeptOut ==
    \A k \in 1..Len(ScrapeLog) :
       (ScrapeLog[k].ok /\ NothingQualifies(ScrapeLog[k].page)) =>
          /\ Extracted[ScrapeLog[k].page].content = ExtractionFailed
          /\ ~ScrapeLog[k].success
          /\ ScrapeLog[k].error = "Content too short"
          /\ \A i \in 1..Len(search_results) :
                /\ search_results[i].url # scrape_urls[ScrapeLog[k].n]
                /\ ~HasMarker(search_results[i].content)
          /\ ret.kind = "report" =>
                \A i \in 1..Len(ret.articles) :
                   /\ ret.articles[i].url # scrape_urls[ScrapeLog[k].n]
                   /\ ret.articles[i].source_link.url # scrape_urls[ScrapeLog[k].n]
                   /\ ~HasMarker(ret.articles[i].content)
                   /\ ~HasMarker(ret.articles[i].title)

\* of two fetched pages the first had nothing to extract, and the report holds the second
\* document only
C26_Witness ==
    /\ pc = "done"
    /\ ret.kind = "report"
    /\ Len(ScrapeLog) = 2
    /\ ScrapeLog[1].ok
    /\ ScrapeLog[1].page = EmptyPage
    /\ Len(ret.articles) = 1
    /\ ret.articles[1].url = scrape_urls[2]

(***************************************************************************)
(* SpecRecency: custom_web_search called twice with the same query and     *)
(* limit but different recency tokens ("tbs"), the network giving the      *)
(* second call the answers it gave the first, request by request.  fn_in   *)
(* is the sequence of answers (recorded by the first call, consumed by the *)
(* second), fn_out the year and what the first call did.                   *)
(***************************************************************************)
RecencyTokens == {"qdr:d", "qdr:w"}

\* answers of the network: as a result or listing page the answer is read by its links, as
\* an article by its page
RecencyResponses ==
    { Exception,
      [kind |-> "http", status |-> 200, links |-> <<>>, page |-> EmptyPage],
      [ kind |-> "http", status |-> 200, page |-> GoodPage,
        links |-> << <<"/", "/", "duckduckgo.com", "/", "l", "/", "?", "uddg", "=",
                       "https%3A%2F%2Fexample.org%2Fnews%2Fa">>,
                     UrlDated >> ] }

\* what a call of custom_web_search did: its requests, the URLs it collected and returned,
\* the documents it kept and its return value
Outcome ==
    [ requests |-> http_log, collected |-> collected_urls, urls |-> scrape_urls,
      results |-> search_results, ret |-> ret ]

InitRecency ==
    /\ pc = "ddg"
    /\ search_query \in Queries
    /\ search_params \in [limit : 1..MaxLimit, tbs : RecencyTokens]
    /\ search_limit = GetLimit(search_params)
    /\ collected_urls = <<>>
    /\ strategy_limit = 0
    /\ site_index = 0
    /\ strategy_urls = <<>>
    /\ scrape_urls = <<>>
    /\ scrape_index = 0
    /\ search_results = <<>>
    /\ http_log = <<>>
    /\ ret = [kind |-> "none"]
    /\ caught = "none"
    /\ cancelled = FALSE
    /\ NoSession
    /\ fn_pc = "first"
    /\ fn_in = <<>>
    /\ \E current_year \in CurrentYears : fn_out = [current_year |-> current_year, first |-> <<>>]

\* a request and its answer: any answer in the first call, which records it; in the
\* second call the answer the same request of the first call got
RequestStep ==
    /\ \E response \in RecencyResponses :
         /\ fn_pc = "second" => (fn_in # <<>> /\ response = Head(fn_in))
         /\ \/ DdgStep(response)
            \/ AltStep(response)
            \/ NewsStep(response, fn_out.current_year)
            \/ ScrapeStep(response)
         /\ fn_in' = IF fn_pc = "first" THEN Append(fn_in, response) ELSE Tail(fn_in)
    /\ UNCHANGED <<fn_pc, fn_out, session_vars>>

\* the first call has returned; the second starts, with the other recency token
SecondCall ==
    /\ fn_pc = "first"
    /\ pc = "done"
    /\ fn_pc' = "second"
    /\ fn_out' = [fn_out EXCEPT !.first = Outcome]
    /\ \E time_range \in RecencyTokens \ {search_params.tbs} :
         search_params' = [search_params EXCEPT !.tbs = time_range]
    /\ search_limit' = GetLimit(search_params')
    /\ pc' = "ddg"
    /\ collected_urls' = <<>>
    /\ strategy_limit' = 0
    /\ site_index' = 0
    /\ strategy_urls' = <<>>
    /\ scrape_urls' = <<>>
    /\ scrape_index' = 0
    /\ search_results' = <<>>
    /\ http_log' = <<>>
    /\ ret' = [kind |-> "none"]
    /\ caught' = "none"
    /\ UNCHANGED <<search_query, cancelled, fn_in, session_vars>>

NextRecency == RequestStep \/ SecondCall

SpecRecency == InitRecency /\ [][NextRecency]_vars

NextLive ==
    \E response \in RecencyResponses, current_year \in CurrentYears :
       /\ \/ DdgStep(response)
          \/ AltStep(response)
          \/ NewsStep(response, current_year)
          \/ ScrapeStep(response)
       /\ UNCHANGED <<session_vars, fn_vars>>

SpecLive == Init /\ [][NextLive]_vars /\ WF_vars(NextLive)

\* the requests logged by one issuer
RequestsBy(by) == SelectSeq(http_log, LAMBDA request : request.by = by)

\* at most 1 request of the engine strategy, 3 of the site-search strategy, 5 of the
\* direct-listing strategy and limit document fetches, none made twice
RequestsBounded ==
    /\ Len(RequestsBy("ddg")) <= 1
    /\ Len(RequestsBy("alt")) <= 3
    /\ Len(RequestsBy("news")) <= 5
    /\ Len(RequestsBy("scrape")) <= search_params.limit
    /\ \A i, j \in 1..Len(http_log) :
          (i < j /\ http_log[i].by = http_log[j].by) => http_log[i].n < http_log[j].n

\* C28: every call with limit >= 1 terminates, provided each request returns or times out,
\* and it makes a bounded number of requests: at most 1 for the engine strategy, 3 for the
\* site-search strategy, 5 for the direct-listing strategy and limit document fetches,
\* with no request retried.
C28_BoundedRequestsAndTermination ==
    /\ []RequestsBounded
    /\ (search_params.limit >= 1) ~> (pc = "done" /\ ret.kind # "none")

\* a call that made every request of the direct-listing strategy and then fetched a
\* document has returned
C28_Witness ==
    /\ pc = "done"
    /\ search_params.limit = MaxLimit
    /\ Len(RequestsBy("ddg")) = 1
    /\ Len(RequestsBy("alt")) >= 2
    /\ Len(RequestsBy("news")) = 5
    /\ Len(RequestsBy("scrape")) >= 1

(***************************************************************************)
(* SpecNewsletter: create_fallback_newsletter (src/Demo/main.py): a web    *)
(* search for the topic, then the newsletter built from what it returned.  *)
(***************************************************************************)
Topics == {"test topic", CrossMark}

\* "U+274C" in search_results, search_results being the text custom_web_search returned
HasCrossMark(result) ==
    IF result.kind = "report"
    THEN \/ Contains(<<CrossMark>>, Words(result.query))
         \/ \E i \in 1..Len(result.articles) :
               \/ \E k \in 1..Len(result.articles[i].title) :
                     result.articles[i].title[k].c = CrossMark
               \/ \E k \in 1..Len(result.articles[i].content) :
                     result.articles[i].content[k].c = CrossMark
    ELSE Contains(<<CrossMark>>, TextWords(result.text))

\* the newsletter: the "Limited Information Available" one, or the one that embeds the
\* returned text under "Research Findings"
create_fallback_newsletter(topic, result) ==
    IF HasCrossMark(result)
    THEN [kind |-> "limited", topic |-> topic, findings |-> [kind |-> "none"]]
    ELSE [kind |-> "findings", topic |-> topic, findings |-> result]

\* web_tool = CustomWebSearchTool(search_params={"limit": search_limit, "tbs": time_range})
InitNewsletter ==
    /\ pc = "ddg"
    /\ search_query \in Topics
    /\ search_params \in [limit : 1..MaxLimit, tbs : RecencyTokens]
    /\ search_limit = GetLimit(search_params)
    /\ collected_urls = <<>>
    /\ strategy_limit = 0
    /\ site_index = 0
    /\ strategy_urls = <<>>
    /\ scrape_urls = <<>>
    /\ scrape_index = 0
    /\ search_results = <<>>
    /\ http_log = <<>>
    /\ ret = [kind |-> "none"]
    /\ caught = "none"
    /\ cancelled = FALSE
    /\ NoSession
    /\ fn_pc = "searching"
    /\ fn_in = <<>>
    /\ fn_out = <<>>

\* search_results = web_tool.custom_web_search(topic): one request of the search
FallbackSearch ==
    /\ fn_pc = "searching"
    /\ NextLive

\* the search has returned: the test of the returned text and the newsletter
FallbackNewsletter ==
    /\ fn_pc = "searching"
    /\ pc = "done"
    /\ fn_pc' = "done"
    /\ fn_in' = ret
    /\ fn_out' = create_fallback_newsletter(search_query, ret)
    /\ UNCHANGED <<search_vars, session_vars>>

NextNewsletter == FallbackSearch \/ FallbackNewsletter

SpecNewsletter == InitNewsletter /\ [][NextNewsletter]_vars

\* C29: create_fallback_newsletter gives the "Limited Information Available" newsletter
\* whenever the web search failed (no URL found, no content extracted, or a critical error
\* text), and embeds the returned text under "Research Findings" only when the search
\* returned a populated report.
C29_LimitedWhenSearchFailed ==
    fn_pc = "done" =>
        /\ fn_in.kind # "report" => fn_out.kind = "limited"
        /\ fn_out.kind = "findings" => (fn_in.kind = "report" /\ Len(fn_in.articles) >= 1)

(***************************************************************************)
(* SpecGenerate: NewsletterGenerator.generate (src/main.py).  fn_in is the *)
(* generator with the articles it last fetched, fn_out the numbers of      *)
(* article fetches and of calls of the AI endpoint, and the text returned. *)
(* A text is the sequence of its pieces.                                   *)
(***************************************************************************)
MaxArticles == 2

\* articles NewsAPI can return
NewsArticles ==
    { [title |-> "Story A", url |-> "https://example.org/a"],
      [title |-> "Story B", url |-> ""],
      [title |-> "Untitled", url |-> "https://example.org/c"] }

\* what _fetch_news_articles returns: the articles of the response, [] after an exception
ArticleLists == UNION {[1..k -> NewsArticles] : k \in 0..MaxArticles}

\* what _call_nebius_api does: it raises, or returns the content of the first choice
AiAnswers ==
    { [raised |-> TRUE, content |-> <<>>],
      [raised |-> FALSE, content |-> <<>>],
      [raised |-> FALSE, content |-> <<"# AI newsletter">>] }

\* the titles of the stories of articles[:search_limit]
RECURSIVE Stories(_)
Stories(articles) ==
    IF articles = <<>> THEN <<>>
    ELSE <<"### ", Head(articles).title>> \o Stories(Tail(articles))

_generate_fallback(topic) ==
    [kind |-> "diagnostic", text |-> <<"# Newsletter: ", topic, "## System Status">>]

\* _generate_with_newsapi_only, given the articles its fetch returned
_generate_with_newsapi_only(topic, limit, articles) ==
    IF articles = <<>> THEN _generate_fallback(topic)
    ELSE [ kind |-> "newsapi",
           text |-> <<"# Newsletter: ", topic, "## Featured Stories">>
                    \o Stories(Prefix(articles, limit)) ]

NotReturned == [kind |-> "none", text |-> <<>>]

InitGenerate ==
    /\ NoSearch
    /\ NoSession
    /\ fn_pc = "generate"
    /\ fn_in \in [topic : Queries, search_limit : 1..MaxLimit, articles : {<<>>}]
    /\ fn_out = [fetches |-> 0, ai_calls |-> 0, returned |-> NotReturned]

\* _generate_with_newsapi_and_ai up to the AI call: the fetch, and "No articles found"
\* raised to generate, whose handler goes to _generate_with_newsapi_only
FetchArticles ==
    /\ fn_pc = "generate"
    /\ \E articles \in ArticleLists :
         /\ fn_in' = [fn_in EXCEPT !.articles = articles]
         /\ fn_pc' = IF articles = <<>> THEN "newsapi_only" ELSE "call_ai"
    /\ fn_out' = [fn_out EXCEPT !.fetches = @ + 1]
    /\ UNCHANGED <<search_vars, session_vars>>

\* self._call_nebius_api(prompt): its content is returned, or its exception is caught and
\* _generate_with_newsapi_only follows
CallNebius ==
    /\ fn_pc = "call_ai"
    /\ \E answer \in AiAnswers :
         IF answer.raised
         THEN /\ fn_pc' = "newsapi_only"
              /\ fn_out' = [fn_out EXCEPT !.ai_calls = @ + 1]
         ELSE /\ fn_pc' = "returned"
              /\ fn_out' = [ fn_out EXCEPT !.ai_calls = @ + 1,
                                           !.returned = [kind |-> "ai", text |-> answer.content] ]
    /\ UNCHANGED <<fn_in, search_vars, session_vars>>

\* _generate_with_newsapi_only: its own fetch and the newsletter or the diagnostic text
NewsapiOnly ==
    /\ fn_pc = "newsapi_only"
    /\ \E articles \in ArticleLists :
         /\ fn_in' = [fn_in EXCEPT !.articles = articles]
         /\ fn_out' = [ fn_out EXCEPT
                          !.fetches = @ + 1,
                          !.returned = _generate_with_newsapi_only(fn_in.topic,
                                                                   fn_in.search_limit, articles) ]
    /\ fn_pc' = "returned"
    /\ UNCHANGED <<search_vars, session_vars>>

NextGenerate == FetchArticles \/ CallNebius \/ NewsapiOnly

SpecGenerate == InitGenerate /\ [][NextGenerate]_vars

\* the fallback chain of generate: the AI text only after one fetch that returned articles
\* and one AI call; otherwise, after a second fetch, the NewsAPI-only newsletter if that
\* fetch returned articles and the diagnostic text if not; at most one AI call and two
\* fetches
FallbackChain ==
    /\ fn_out.ai_calls <= 1
    /\ fn_out.fetches <= 2
    /\ fn_pc = "returned" =>
         /\ fn_out.returned.kind \in {"ai", "newsapi", "diagnostic"}
         /\ fn_out.returned.kind = "ai" =>
              (fn_out.fetches = 1 /\ fn_out.ai_calls = 1 /\ fn_in.articles # <<>>)
         /\ fn_out.returned.kind = "newsapi" =>
              (fn_out.fetches = 2 /\ fn_in.articles # <<>>)
         /\ fn_out.returned.kind = "diagnostic" =>
              (fn_out.fetches = 2 /\ fn_in.articles = <<>>)

\* what generate returns apart from the AI text: the NewsAPI-only newsletter and the
\* diagnostic text are never empty, and the AI text is the content the AI endpoint
\* answered, whatever it is
GenerateContract ==
    fn_pc \in {"generate", "call_ai", "newsapi_only", "returned"} =>
        /\ FallbackChain
        /\ (fn_pc = "returned" /\ fn_out.returned.kind # "ai") => fn_out.returned.text # <<>>
        /\ (fn_pc = "returned" /\ fn_out.returned.kind = "ai") =>
              fn_out.returned.text \in {answer.content : answer \in AiAnswers}

\* C30: generate follows the fallback chain (the AI text only if articles were fetched and
\* the AI call succeeded, else the NewsAPI-only newsletter if the second fetch returns
\* articles, else the diagnostic text; at most one AI call and two fetches) and the text
\* it returns is never empty.
C30_ChainAndNonEmptyText ==
    fn_pc \in {"generate", "call_ai", "newsapi_only", "returned"} =>
        /\ FallbackChain
        /\ fn_pc = "returned" => fn_out.returned.text # <<>>

====
